---- MODULE Spec2Model ----
(***************************************************************************)
(* The streaming engine of pkg/input/direct/main.go (package gostream):    *)
(* basicRemoteView with its connection registry, the per-peer attach       *)
(* worker spawned by Handler, the ICE state-change callback, the encode    *)
(* loop (processInputFrames), the fan-out loop (processOutputFrames),      *)
(* Stop, Ready, the SendData / SendText broadcasts, the data-channel and   *)
(* click-channel OnMessage callbacks with SetOnDataHandler and             *)
(* SetOnClickHandler, and a producer sending on InputFrames.               *)
(***************************************************************************)
EXTENDS Integers, Sequences, FiniteSets, TLC

\* ------------------------------------------------------------------ bounds
NumPeers == 2        \* peers that send an offer
PipePeers == 1       \* peers that send an offer while images are pushed
MaxImages == 3       \* non-nil images pushed to InputFrames
SnapImages == 1      \* non-nil images pushed in the specifications named Snapshot and FairInit

Peers == 1..NumPeers
PipelinePeers == 1..PipePeers

\* An image is nil or has bounds <<width, height>>.
NilImage == <<0, 0>>
Sizes == {<<1, 2>>, <<2, 1>>}
Images == {NilImage} \cup Sizes

\* What Encoder.Encode returns for one image: an error, no output, a sample.
EncodeResults == {"error", "none", "sample"}

\* The ICE connection states the callback acts on.
TerminalStates == {"disconnected", "failed", "closed"}
ICEStates == {"connected"} \cup TerminalStates

VARIABLES
    \* lifecycle
    cancelled,      \* shutdownCtx is done
    stopPc,         \* Stop(): "idle", "wait" (in backgroundProcessing.Wait), "returned"
    wg,             \* backgroundProcessing counter
    crashed,        \* the process has panicked
    \* per peer
    ice,            \* class of the last ICE state reported for the peer:
                    \* "none" (no offer yet), "new", "connected", "terminated"
    iceConnected,   \* iceConnectedCtx is done
    hpc,            \* Handler / attach worker position
    \* registry and ready gate
    peerToRemoteClient,
    readyOnce,      \* readyOnce has run
    readyCloses,    \* number of close(readyCh) executed
    startClients,   \* history: registry content when the two loops were started
    \* encode loop
    encPc, firstFrame, encoder, held,
    \* fan-out loop
    outPc, outFrame, snap, outClosed,
    \* history of the pipeline
    consumed,       \* number of non-nil images received from inputFrames
    firstImage,     \* history: the first non-nil image received (NilImage: none yet)
    factoryCalls,   \* <<w, h>> of each EncoderFactory.New call
    encCalls,       \* index of each image passed to Encode, in order
    samples,        \* index of each image for which Encode returned a sample
    writes,         \* per peer: the samples passed to its WriteSample, in order
    writeFailed,    \* a WriteSample call returned an error
    \* SendData / SendText caller
    sendPc, sendKind, sendSnap, sendLeft, sendCount, sendFailed,
    \* handler slots and the delivery callbacks
    onDataHandler,  \* brv.onDataHandler: "nil" or "fn"
    onClickHandler, \* brv.onClickHandler: "nil" or "fn"
    dpc,            \* data-channel callback: "idle", "check", "call", "done"
    dPeer,          \* the peer whose data channel delivers the message (0: none)
    dMsg,           \* the message being delivered
    dSeen,          \* history: brv.onDataHandler as the callback's nil test read it
                    \* ("none": not read yet)
    dCmd,           \* history: UnmarshalCommand was called for the message
    dReplies,       \* history, per peer: replies sent on its data channel by the callback
    dCalls,         \* history: calls of the data handler made by the callback
    cpc,            \* click-channel callback: "idle", "check", "call", "done"
    cCalls,         \* history: calls of the click handler made by the callback
    nilCall,        \* history: nil function called, "none", "data", "click"
    \* producer
    pushPc          \* `InputFrames() <- img`: "idle", "send" (blocked in the send),
                    \* "sendAfterStop" (blocked in a send begun after Stop returned)

viewVars == <<cancelled, stopPc, wg, crashed, ice, iceConnected, hpc,
          peerToRemoteClient, readyOnce, readyCloses, startClients,
          encPc, firstFrame, encoder, held, outPc, outFrame, snap, outClosed,
          consumed, firstImage, factoryCalls, encCalls, samples, writes, writeFailed,
          sendPc, sendKind, sendSnap, sendLeft, sendCount, sendFailed>>

dataVars == <<dpc, dPeer, dMsg, dSeen, dCmd, dReplies, dCalls>>
clickVars == <<cpc, cCalls>>
msgVars == <<onDataHandler, onClickHandler, dataVars, clickVars, nilCall>>
extVars == <<msgVars, pushPc>>

vars == <<viewVars, extVars>>

lifeVars == <<cancelled, stopPc>>
peerVars == <<ice, iceConnected, hpc>>
readyVars == <<readyOnce, readyCloses, startClients>>
encVars == <<encPc, firstFrame, encoder, held>>
outVars == <<outPc, outFrame, snap>>
histVars == <<consumed, firstImage, factoryCalls, encCalls, samples>>
sendVars == <<sendPc, sendKind, sendSnap, sendLeft, sendCount, sendFailed>>

\* ------------------------------------------------------------ NewRemoteView
Init ==
    /\ cancelled = FALSE
    /\ stopPc = "idle"
    /\ wg = 0
    /\ crashed = FALSE
    /\ ice = [p \in Peers |-> "none"]
    /\ iceConnected = [p \in Peers |-> FALSE]
    /\ hpc = [p \in Peers |-> "none"]
    /\ peerToRemoteClient = {}
    /\ readyOnce = FALSE
    /\ readyCloses = 0
    /\ startClients = {}
    /\ encPc = "off"
    /\ firstFrame = TRUE
    /\ encoder = "nil"
    /\ held = 0
    /\ outPc = "off"
    /\ outFrame = 0
    /\ snap = {}
    /\ outClosed = FALSE
    /\ consumed = 0
    /\ firstImage = NilImage
    /\ factoryCalls = <<>>
    /\ encCalls = <<>>
    /\ samples = <<>>
    /\ writes = [p \in Peers |-> <<>>]
    /\ writeFailed = FALSE
    /\ sendPc = "idle"
    /\ sendKind = "none"
    /\ sendSnap = {}
    /\ sendLeft = {}
    /\ sendCount = [p \in Peers |-> 0]
    /\ sendFailed = {}
    /\ onDataHandler = "nil"
    /\ onClickHandler = "nil"
    /\ dpc = "idle"
    /\ dPeer = 0
    /\ dMsg = "none"
    /\ dSeen = "none"
    /\ dCmd = FALSE
    /\ dReplies = [p \in Peers |-> <<>>]
    /\ dCalls = 0
    /\ cpc = "idle"
    /\ cCalls = 0
    /\ nilCall = "none"
    /\ pushPc = "idle"

\* ----------------------------------------------------------------- registry
addRemoteClient(reg, p) == reg \cup {p}

\* Faulty variant of removeRemoteClient: deleting an absent key empties the map.
removeRemoteClient_DropAll(reg, p) == IF p \in reg THEN reg \ {p} ELSE {}

removeRemoteClient(reg, p) == reg \ {p}

getRemoteClients(reg) == reg

\* Ready(): the channel is readable once it has been closed.
Ready == readyCloses > 0

\* --------------------------------------------------------- Handler, per peer
\* The HTTP handler for one offer. It creates the peer connection and its
\* callbacks, answers, and either returns early (an error path, or the
\* shutdown branch of the select on gatherComplete) or spawns the attach worker.
HandlerReturn(p) ==
    /\ ~crashed
    /\ hpc[p] = "none"
    /\ hpc' = [hpc EXCEPT ![p] = "returned"]
    /\ ice' = [ice EXCEPT ![p] = "new"]
    /\ UNCHANGED <<lifeVars, wg, crashed, iceConnected, peerToRemoteClient, readyVars,
                   encVars, outVars, outClosed, histVars, writes, writeFailed, sendVars, extVars>>

HandlerSpawn(p) ==
    /\ ~crashed
    /\ hpc[p] = "none"
    /\ hpc' = [hpc EXCEPT ![p] = "wait"]
    /\ ice' = [ice EXCEPT ![p] = "new"]
    /\ wg' = wg + 1
    /\ UNCHANGED <<lifeVars, crashed, iceConnected, peerToRemoteClient, readyVars,
                   encVars, outVars, outClosed, histVars, writes, writeFailed, sendVars, extVars>>

\* The class of an ICE connection state, as the callback tells them apart.
ICEClass(connectionState) ==
    IF connectionState \in TerminalStates THEN "terminated" ELSE connectionState

\* The transitions of the transport's ICE connection state: connected comes
\* first if it comes at all, and a terminated transport may report again
\* (disconnected, then failed, then closed).
ICENext(from, to) ==
    \/ from = "new"
    \/ from = "connected" /\ to \in TerminalStates
    \/ from = "terminated" /\ to \in TerminalStates

OnICEConnectionStateChange(p, connectionState) ==
    /\ ~crashed
    /\ ice[p] # "none"
    /\ ICENext(ice[p], connectionState)
    /\ ice' = [ice EXCEPT ![p] = ICEClass(connectionState)]
    /\ IF connectionState = "connected"
          THEN /\ iceConnected' = [iceConnected EXCEPT ![p] = TRUE]
               /\ UNCHANGED peerToRemoteClient
          ELSE /\ peerToRemoteClient' = removeRemoteClient(peerToRemoteClient, p)
               /\ UNCHANGED iceConnected
    /\ UNCHANGED <<lifeVars, wg, crashed, hpc, readyVars, encVars, outVars, outClosed,
                   histVars, writes, writeFailed, sendVars, extVars>>

\* The attach worker's select takes the shutdown branch.
WorkerShutdown(p) ==
    /\ ~crashed
    /\ hpc[p] = "wait"
    /\ cancelled
    /\ hpc' = [hpc EXCEPT ![p] = "exited"]
    /\ wg' = wg - 1
    /\ UNCHANGED <<lifeVars, crashed, ice, iceConnected, peerToRemoteClient, readyVars,
                   encVars, outVars, outClosed, histVars, writes, writeFailed, sendVars, extVars>>

\* The attach worker's select takes the iceConnectedCtx branch, then addRemoteClient.
WorkerAdd(p) ==
    /\ ~crashed
    /\ hpc[p] = "wait"
    /\ iceConnected[p]
    /\ hpc' = [hpc EXCEPT ![p] = "once"]
    /\ peerToRemoteClient' = addRemoteClient(peerToRemoteClient, p)
    /\ UNCHANGED <<lifeVars, wg, crashed, ice, iceConnected, readyVars,
                   encVars, outVars, outClosed, histVars, writes, writeFailed, sendVars, extVars>>

\* Faulty variant of OnceBody: the gate is missing, every caller runs the function.
OnceBody_NoGate(first) ==
    /\ readyOnce' = TRUE
    /\ readyCloses' = readyCloses + 1
    /\ crashed' = (readyCloses > 0)
    /\ startClients' = peerToRemoteClient
    /\ wg' = wg + 2 - 1
    /\ encPc' = "top"
    /\ outPc' = "range"

\* Faulty variant of OnceBody: readyCh is closed once, but every caller
\* starts the two loops.
OnceBody_Restart(first) ==
    /\ wg' = wg + 2 - 1
    /\ encPc' = "top"
    /\ outPc' = "range"
    /\ IF first
          THEN /\ readyOnce' = TRUE
               /\ readyCloses' = readyCloses + 1
               /\ crashed' = (readyCloses > 0)
               /\ startClients' = peerToRemoteClient
          ELSE UNCHANGED <<readyVars, crashed>>

\* readyOnce.Do(...) followed by the deferred backgroundProcessing.Done().
\* The function runs only for the first caller: it closes readyCh and
\* starts the two loops.
OnceBody(first) ==
    IF first
       THEN /\ readyOnce' = TRUE
            /\ readyCloses' = readyCloses + 1
            /\ crashed' = (readyCloses > 0)
            /\ startClients' = peerToRemoteClient
            /\ wg' = wg + 2 - 1
            /\ encPc' = "top"
            /\ outPc' = "range"
       ELSE /\ wg' = wg - 1
            /\ UNCHANGED <<readyVars, crashed, encPc, outPc>>

WorkerOnce(p) ==
    /\ ~crashed
    /\ hpc[p] = "once"
    /\ hpc' = [hpc EXCEPT ![p] = "attached"]
    /\ OnceBody(~readyOnce)
    /\ UNCHANGED <<lifeVars, ice, iceConnected, peerToRemoteClient,
                   firstFrame, encoder, held, outFrame, snap, outClosed,
                   histVars, writes, writeFailed, sendVars, extVars>>

\* --------------------------------------------------------------------- Stop
StopCancel ==
    /\ ~crashed
    /\ stopPc = "idle"
    /\ cancelled' = TRUE
    /\ stopPc' = "wait"
    /\ UNCHANGED <<wg, crashed, peerVars, peerToRemoteClient, readyVars, encVars,
                   outVars, outClosed, histVars, writes, writeFailed, sendVars, extVars>>

StopWait ==
    /\ ~crashed
    /\ stopPc = "wait"
    /\ wg = 0
    /\ stopPc' = "returned"
    /\ UNCHANGED <<cancelled, wg, crashed, peerVars, peerToRemoteClient, readyVars,
                   encVars, outVars, outClosed, histVars, writes, writeFailed, sendVars, extVars>>

Stop == StopCancel \/ StopWait

\* ------------------------------------------------------- processInputFrames
\* Faulty variant of EncodeExit: outputFrames is left open.
EncodeExit_NoClose ==
    /\ encPc' = "done"
    /\ outClosed' = outClosed
    /\ wg' = wg - 1

\* The deferred function: close(outputFrames), backgroundProcessing.Done().
EncodeExit ==
    /\ encPc' = "done"
    /\ outClosed' = TRUE
    /\ wg' = wg - 1

\* Faulty variant of EncodeTop: the loop does not look at shutdownCtx before
\* it waits for an image.
EncodeTop_NoShutdownCheck ==
    /\ ~crashed
    /\ encPc = "top"
    /\ encPc' = "recv"
    /\ UNCHANGED <<outClosed, wg>>
    /\ UNCHANGED <<lifeVars, crashed, peerVars, peerToRemoteClient, readyVars,
                   firstFrame, encoder, held, outVars, histVars, writes, writeFailed,
                   sendVars, extVars>>

\* The non-blocking select at the top of the loop.
EncodeTop ==
    /\ ~crashed
    /\ encPc = "top"
    /\ IF cancelled
          THEN EncodeExit
          ELSE encPc' = "recv" /\ UNCHANGED <<outClosed, wg>>
    /\ UNCHANGED <<lifeVars, crashed, peerVars, peerToRemoteClient, readyVars,
                   firstFrame, encoder, held, outVars, histVars, writes, writeFailed,
                   sendVars, extVars>>

\* The blocking select takes the shutdown branch.
EncodeRecvShutdown ==
    /\ ~crashed
    /\ encPc = "recv"
    /\ cancelled
    /\ EncodeExit
    /\ UNCHANGED <<lifeVars, crashed, peerVars, peerToRemoteClient, readyVars,
                   firstFrame, encoder, held, outVars, histVars, writes, writeFailed,
                   sendVars, extVars>>

\* initCodec: EncoderFactory.New(width, height) is called unless an encoder
\* exists already. Returns the new value of brv.encoder, the error, and the
\* calls of New it made.
initCodec(enc, width, height, factoryOk) ==
    IF enc # "nil"
       THEN [encoder |-> enc, err |-> TRUE, calls |-> <<>>]
       ELSE [encoder |-> IF factoryOk THEN "enc" ELSE "nil",
             err |-> ~factoryOk, calls |-> << <<width, height>> >>]

\* Faulty variant of OnInitError: the failure is skipped like a per-frame error.
OnInitError_Continue ==
    /\ encPc' = "top"
    /\ UNCHANGED <<firstFrame, held, encCalls, samples, outClosed, wg>>

\* What the loop does with a frame whose codec initialization failed.
OnInitError ==
    /\ EncodeExit
    /\ UNCHANGED <<firstFrame, held, encCalls, samples>>

\* Faulty variant of OnEncodeResult: a per-frame error ends the loop.
OnEncodeResult_ErrorFatal(id, result) ==
    /\ encCalls' = Append(encCalls, id)
    /\ IF result = "sample"
          THEN /\ samples' = Append(samples, id)
               /\ held' = id
               /\ encPc' = "send"
               /\ UNCHANGED <<outClosed, wg>>
          ELSE IF result = "error"
                  THEN /\ encPc' = "done"
                       /\ outClosed' = TRUE
                       /\ wg' = wg - 1
                       /\ UNCHANGED <<samples, held>>
                  ELSE /\ encPc' = "top"
                       /\ UNCHANGED <<samples, held, outClosed, wg>>

\* What the loop does with the result of Encode for image number id.
OnEncodeResult(id, result) ==
    /\ encCalls' = Append(encCalls, id)
    /\ IF result = "sample"
          THEN /\ samples' = Append(samples, id)
               /\ held' = id
               /\ encPc' = "send"
          ELSE /\ encPc' = "top"
               /\ UNCHANGED <<samples, held>>
    /\ UNCHANGED <<outClosed, wg>>

\* The blocking select receives a frame from inputFrames; the loop body runs
\* up to the send on outputFrames, the next iteration or the return. The
\* non-nil images are numbered in the order they are received.
RecvFrame(frame, factoryOk, result) ==
    /\ ~crashed
    /\ encPc = "recv"
    /\ frame # NilImage => consumed < MaxImages
    /\ consumed' = IF frame = NilImage THEN consumed ELSE consumed + 1
    /\ firstImage' = IF firstImage = NilImage THEN frame ELSE firstImage
    /\ IF frame = NilImage
          THEN /\ encPc' = "top"
               /\ UNCHANGED <<firstFrame, encoder, held, factoryCalls, encCalls, samples,
                              outClosed, wg>>
          ELSE LET init == IF firstFrame
                              THEN initCodec(encoder, frame[1], frame[2], factoryOk)
                              ELSE [encoder |-> encoder, err |-> FALSE, calls |-> <<>>]
               IN  /\ encoder' = init.encoder
                   /\ factoryCalls' = factoryCalls \o init.calls
                   /\ IF init.err
                         THEN OnInitError
                         ELSE /\ firstFrame' = FALSE
                              /\ OnEncodeResult(consumed + 1, result)
    /\ UNCHANGED <<lifeVars, crashed, peerVars, peerToRemoteClient, readyVars,
                   outVars, writes, writeFailed, sendVars, msgVars>>

\* The receive from inputFrames with a producer that always has the next
\* image at hand.
EncodeRecvFrame(frame, factoryOk, result) ==
    /\ RecvFrame(frame, factoryOk, result)
    /\ UNCHANGED pushPc

\* brv.outputFrames <- encodedFrame: the channel is unbuffered, so the send
\* completes only with the fan-out loop receiving at its range.
EncodeSend ==
    /\ ~crashed
    /\ encPc = "send"
    /\ outPc = "range"
    /\ outFrame' = held
    /\ outPc' = "check"
    /\ held' = 0
    /\ encPc' = "top"
    /\ UNCHANGED <<lifeVars, wg, crashed, peerVars, peerToRemoteClient, readyVars,
                   firstFrame, encoder, snap, outClosed, histVars, writes, writeFailed,
                   sendVars, extVars>>

processInputFrames(Imgs) ==
    \/ EncodeTop
    \/ EncodeRecvShutdown
    \/ \E frame \in Imgs, factoryOk \in BOOLEAN, result \in EncodeResults :
          EncodeRecvFrame(frame, factoryOk, result)
    \/ EncodeSend

\* ------------------------------------------------------------- InputFrames
\* A producer begins `view.InputFrames() <- img`. inputFrames is unbuffered:
\* the send blocks until the encode loop receives.
Push ==
    /\ ~crashed
    /\ pushPc = "idle"
    /\ pushPc' = IF stopPc = "returned" THEN "sendAfterStop" ELSE "send"
    /\ UNCHANGED <<viewVars, msgVars>>

\* The encode loop receives the image the producer is sending.
PushRecv(frame, factoryOk, result) ==
    /\ pushPc # "idle"
    /\ RecvFrame(frame, factoryOk, result)
    /\ pushPc' = "idle"

\* The encode loop fed by the producer's sends.
PushedInputFrames(Imgs) ==
    \/ EncodeTop
    \/ EncodeRecvShutdown
    \/ \E frame \in Imgs, factoryOk \in BOOLEAN, result \in EncodeResults :
          PushRecv(frame, factoryOk, result)
    \/ EncodeSend

\* ------------------------------------------------------ processOutputFrames
\* The range ends because outputFrames is closed.
FanOutClosed ==
    /\ ~crashed
    /\ outPc = "range"
    /\ outClosed
    /\ outPc' = "done"
    /\ wg' = wg - 1
    /\ UNCHANGED <<lifeVars, crashed, peerVars, peerToRemoteClient, readyVars, encVars,
                   outFrame, snap, outClosed, histVars, writes, writeFailed, sendVars, extVars>>

\* The position of the loop after the last write of an iteration.
AfterWrites(left) == IF left = {} THEN "range" ELSE "write"

\* The shutdown check of an iteration, then the snapshot of the registry.
FanOutCheck ==
    /\ ~crashed
    /\ outPc = "check"
    /\ IF cancelled
          THEN /\ outPc' = "done"
               /\ wg' = wg - 1
               /\ UNCHANGED snap
          ELSE /\ snap' = getRemoteClients(peerToRemoteClient)
               /\ outPc' = AfterWrites(snap')
               /\ UNCHANGED wg
    /\ UNCHANGED <<lifeVars, crashed, peerVars, peerToRemoteClient, readyVars, encVars,
                   outFrame, outClosed, histVars, writes, writeFailed, sendVars, extVars>>

\* Faulty variant of OnWriteResult: the iteration does not advance past p.
OnWriteResult_NoAdvance(p, ok) ==
    IF ok
       THEN /\ snap' = snap
            /\ outPc' = "write"
            /\ UNCHANGED <<crashed, writeFailed>>
       ELSE /\ crashed' = TRUE
            /\ writeFailed' = TRUE
            /\ UNCHANGED <<snap, outPc>>

\* Faulty variant of OnWriteResult: the iteration goes on over the registry
\* as it is now, not over the snapshot.
OnWriteResult_LiveRegistry(p, ok) ==
    IF ok
       THEN /\ snap' = {q \in peerToRemoteClient :
                          q # p /\ \A i \in 1..Len(writes[q]) : writes[q][i] # outFrame}
            /\ outPc' = AfterWrites(snap')
            /\ UNCHANGED <<crashed, writeFailed>>
       ELSE /\ crashed' = TRUE
            /\ writeFailed' = TRUE
            /\ UNCHANGED <<snap, outPc>>

\* What the loop does when WriteSample returns: panic on an error.
OnWriteResult(p, ok) ==
    IF ok
       THEN /\ snap' = snap \ {p}
            /\ outPc' = AfterWrites(snap')
            /\ UNCHANGED <<crashed, writeFailed>>
       ELSE /\ crashed' = TRUE
            /\ writeFailed' = TRUE
            /\ UNCHANGED <<snap, outPc>>

\* One WriteSample call of the iteration over the snapshot.
FanOutWrite(p, ok) ==
    /\ ~crashed
    /\ outPc = "write"
    /\ p \in snap
    /\ writes' = [writes EXCEPT ![p] = Append(@, outFrame)]
    /\ OnWriteResult(p, ok)
    /\ UNCHANGED <<lifeVars, wg, peerVars, peerToRemoteClient, readyVars, encVars,
                   outFrame, outClosed, histVars, sendVars, extVars>>

processOutputFrames ==
    \/ FanOutClosed
    \/ FanOutCheck
    \/ \E p \in snap, ok \in BOOLEAN : FanOutWrite(p, ok)

\* ------------------------------------------------------- SendData, SendText
\* The call takes the snapshot of the registry it will iterate over.
Broadcast(kind) ==
    /\ ~crashed
    /\ sendPc \in {"idle", "done"}
    /\ sendKind' = kind
    /\ sendSnap' = getRemoteClients(peerToRemoteClient)
    /\ sendLeft' = sendSnap'
    /\ sendCount' = [p \in Peers |-> 0]
    /\ sendFailed' = {}
    /\ sendPc' = IF sendSnap' = {} THEN "done" ELSE "loop"
    /\ UNCHANGED <<lifeVars, wg, crashed, peerVars, peerToRemoteClient, readyVars,
                   encVars, outVars, outClosed, histVars, writes, writeFailed, extVars>>

SendData == Broadcast("data")

SendText == Broadcast("text")

\* Faulty variant of OnSendResult: the first failed send ends the broadcast.
OnSendResult_AbortOnError(p, ok) ==
    /\ sendFailed' = IF ok THEN sendFailed ELSE sendFailed \cup {p}
    /\ sendLeft' = IF ok THEN sendLeft \ {p} ELSE {}
    /\ sendPc' = IF sendLeft' = {} THEN "done" ELSE "loop"

\* What the loop does when a send on a control sink returns: an error is logged.
OnSendResult(p, ok) ==
    /\ sendFailed' = IF ok THEN sendFailed ELSE sendFailed \cup {p}
    /\ sendLeft' = sendLeft \ {p}
    /\ sendPc' = IF sendLeft' = {} THEN "done" ELSE "loop"

\* One dataChannel.Send / SendText of the iteration over the snapshot.
SendOne(p, ok) ==
    /\ ~crashed
    /\ sendPc = "loop"
    /\ p \in sendLeft
    /\ sendCount' = [sendCount EXCEPT ![p] = @ + 1]
    /\ OnSendResult(p, ok)
    /\ UNCHANGED <<lifeVars, wg, crashed, peerVars, peerToRemoteClient, readyVars,
                   encVars, outVars, outClosed, histVars, writes, writeFailed,
                   sendKind, sendSnap, extVars>>

\* ------------------------------------- SetOnDataHandler, SetOnClickHandler
Handlers == {"nil", "fn"}

SetOnDataHandler(handler) ==
    /\ ~crashed
    /\ onDataHandler' = handler
    /\ UNCHANGED <<viewVars, onClickHandler, dataVars, clickVars, nilCall, pushPc>>

SetOnClickHandler(handler) ==
    /\ ~crashed
    /\ onClickHandler' = handler
    /\ UNCHANGED <<viewVars, onDataHandler, dataVars, clickVars, nilCall, pushPc>>

\* ------------------------------------------------- dataChannel.OnMessage
\* The messages a peer can send on the data channel: a binary message, a
\* text that is no command envelope, a command that is not registered, a
\* registered command that fails, and registered commands that return no
\* response, a text response, a binary response.
DataMsgs == {"binary", "malformed", "unknown", "failing",
             "nilResp", "textResp", "binaryResp"}

\* UnmarshalCommand succeeds on a well-formed envelope.
UnmarshalCommand(msg) == msg # "malformed"

\* CommandRegistry().Process: an unregistered name and a failing handler
\* give an error, otherwise the handler's response is returned.
Process(msg) ==
    CASE msg \in {"unknown", "failing"} -> "error"
      [] msg = "nilResp" -> "nil"
      [] msg = "textResp" -> "text"
      [] msg = "binaryResp" -> "binary"

\* Faulty variant of HandlerAbsent: the built-in command path is always taken.
HandlerAbsent_Always(handler) == TRUE

\* The test `brv.onDataHandler == nil`.
HandlerAbsent(handler) == handler = "nil"

\* Faulty variant of OnCommand: the error replies do not return.
OnCommand_ErrorFallsThrough(msg) ==
    IF msg = "binary"
       THEN [cmd |-> FALSE, reply |-> <<>>, fall |-> FALSE]
       ELSE IF ~UnmarshalCommand(msg)
               THEN [cmd |-> TRUE, reply |-> <<"error">>, fall |-> TRUE]
               ELSE LET resp == Process(msg)
                    IN  CASE resp = "error" ->
                               [cmd |-> TRUE, reply |-> <<"error">>, fall |-> TRUE]
                          [] resp = "nil" ->
                               [cmd |-> TRUE, reply |-> <<>>, fall |-> FALSE]
                          [] resp = "text" ->
                               [cmd |-> TRUE, reply |-> <<"text">>, fall |-> FALSE]
                          [] resp = "binary" ->
                               [cmd |-> TRUE, reply |-> <<"binary">>, fall |-> TRUE]

\* The body of `if brv.onDataHandler == nil { ... }`: whether UnmarshalCommand
\* is called, the replies sent on the data channel ("error": SendText of the
\* error, "text": SendText of the response, "binary": Send of the response),
\* and whether control falls out of the block instead of returning.
OnCommand(msg) ==
    IF msg = "binary"
       THEN [cmd |-> FALSE, reply |-> <<>>, fall |-> FALSE]
       ELSE IF ~UnmarshalCommand(msg)
               THEN [cmd |-> TRUE, reply |-> <<"error">>, fall |-> FALSE]
               ELSE LET resp == Process(msg)
                    IN  CASE resp = "error" ->
                               [cmd |-> TRUE, reply |-> <<"error">>, fall |-> FALSE]
                          [] resp = "nil" ->
                               [cmd |-> TRUE, reply |-> <<>>, fall |-> FALSE]
                          [] resp = "text" ->
                               [cmd |-> TRUE, reply |-> <<"text">>, fall |-> FALSE]
                          [] resp = "binary" ->
                               [cmd |-> TRUE, reply |-> <<"binary">>, fall |-> TRUE]

\* The transport calls the callback of peer p's data channel with msg.
DataArrive(p, msg) ==
    /\ ~crashed
    /\ dpc \in {"idle", "done"}
    /\ ice[p] = "connected"
    /\ dpc' = "check"
    /\ dPeer' = p
    /\ dMsg' = msg
    /\ dSeen' = "none"
    /\ dCmd' = FALSE
    /\ dReplies' = [q \in Peers |-> <<>>]
    /\ dCalls' = 0
    /\ UNCHANGED <<viewVars, onDataHandler, onClickHandler, clickVars, nilCall, pushPc>>

\* The nil test and, with no handler, the built-in command path. A reply is
\* recorded with the outcome of its send; a failed send is logged.
DataCheck(sendOk) ==
    /\ ~crashed
    /\ dpc = "check"
    /\ dSeen' = onDataHandler
    /\ IF HandlerAbsent(onDataHandler)
          THEN LET r == OnCommand(dMsg)
               IN  /\ dCmd' = r.cmd
                   /\ dReplies' = [dReplies EXCEPT ![dPeer] =
                                     [i \in 1..Len(r.reply) |-> <<r.reply[i], sendOk>>]]
                   /\ dpc' = IF r.fall THEN "call" ELSE "done"
          ELSE /\ dpc' = "call"
               /\ UNCHANGED <<dCmd, dReplies>>
    /\ UNCHANGED <<viewVars, onDataHandler, onClickHandler, dPeer, dMsg, dCalls,
                   clickVars, nilCall, pushPc>>

\* brv.onDataHandler(msg.Data): the field is read again; calling nil panics.
DataCall ==
    /\ ~crashed
    /\ dpc = "call"
    /\ IF onDataHandler = "nil"
          THEN /\ crashed' = TRUE
               /\ nilCall' = "data"
               /\ UNCHANGED <<dpc, dCalls>>
          ELSE /\ dCalls' = dCalls + 1
               /\ dpc' = "done"
               /\ UNCHANGED <<crashed, nilCall>>
    /\ UNCHANGED <<lifeVars, wg, peerVars, peerToRemoteClient, readyVars, encVars,
                   outVars, outClosed, histVars, writes, writeFailed, sendVars,
                   onDataHandler, onClickHandler, dPeer, dMsg, dSeen, dCmd, dReplies,
                   clickVars, pushPc>>

\* ------------------------------------------------ clickChannel.OnMessage
\* The transport calls the callback of peer p's click channel.
ClickArrive(p) ==
    /\ ~crashed
    /\ cpc \in {"idle", "done"}
    /\ ice[p] = "connected"
    /\ cpc' = "check"
    /\ cCalls' = 0
    /\ UNCHANGED <<viewVars, onDataHandler, onClickHandler, dataVars, nilCall, pushPc>>

\* The nil test, then the parsing of "x,y": a message that does not parse panics.
ClickCheck(wellFormed) ==
    /\ ~crashed
    /\ cpc = "check"
    /\ IF onClickHandler = "nil"
          THEN cpc' = "done" /\ UNCHANGED crashed
          ELSE IF wellFormed
                  THEN cpc' = "call" /\ UNCHANGED crashed
                  ELSE crashed' = TRUE /\ UNCHANGED cpc
    /\ UNCHANGED <<lifeVars, wg, peerVars, peerToRemoteClient, readyVars, encVars,
                   outVars, outClosed, histVars, writes, writeFailed, sendVars,
                   onDataHandler, onClickHandler, dataVars, cCalls, nilCall, pushPc>>

\* brv.onClickHandler(int(x), int(y)): the field is read again.
ClickCall ==
    /\ ~crashed
    /\ cpc = "call"
    /\ IF onClickHandler = "nil"
          THEN /\ crashed' = TRUE
               /\ nilCall' = "click"
               /\ UNCHANGED <<cpc, cCalls>>
          ELSE /\ cCalls' = cCalls + 1
               /\ cpc' = "done"
               /\ UNCHANGED <<crashed, nilCall>>
    /\ UNCHANGED <<lifeVars, wg, peerVars, peerToRemoteClient, readyVars, encVars,
                   outVars, outClosed, histVars, writes, writeFailed, sendVars,
                   onDataHandler, onClickHandler, dataVars, pushPc>>

\* ------------------------------------------------------------ specification
AttachWorker(p) == WorkerShutdown(p) \/ WorkerAdd(p) \/ WorkerOnce(p)

\* The signaling adapter and the transport, for the peers of P.
PeerNext(P) ==
    \/ \E p \in P : HandlerReturn(p)
    \/ \E p \in P : HandlerSpawn(p)
    \/ \E p \in P, s \in ICEStates : OnICEConnectionStateChange(p, s)
    \/ \E p \in P : AttachWorker(p)

\* The callers of SendData and SendText.
SendNext ==
    \/ SendData
    \/ SendText
    \/ \E p \in sendLeft, ok \in BOOLEAN : SendOne(p, ok)

\* The two loops while no producer pushes an image.
IdleLoops ==
    \/ EncodeTop
    \/ EncodeRecvShutdown
    \/ FanOutClosed

\* The View with PipePeers peers and a producer pushing images.
Next ==
    \/ PeerNext(PipelinePeers)
    \/ Stop
    \/ processInputFrames(Images)
    \/ processOutputFrames

Spec == Init /\ [][Next]_vars

\* The same with images of one size. Every goroutine that can take a step
\* eventually takes one; the callers of the View (offers, ICE reports, pushed
\* images, Stop) are free.
FairNext ==
    \/ PeerNext(PipelinePeers)
    \/ Stop
    \/ processInputFrames({NilImage, <<1, 2>>})
    \/ processOutputFrames

FairSpec ==
    /\ Init /\ [][FairNext]_vars
    /\ WF_vars(processInputFrames({NilImage, <<1, 2>>}))
    /\ WF_vars(processOutputFrames)
    /\ \A p \in PipelinePeers : WF_vars(AttachWorker(p))
    /\ WF_vars(StopWait)

\* The View with NumPeers peers and a producer pushing images of one size.
FanOutNext ==
    \/ PeerNext(Peers)
    \/ Stop
    \/ processInputFrames({<<1, 2>>})
    \/ processOutputFrames

FanOutSpec == Init /\ [][FanOutNext]_vars

\* The View with NumPeers peers and no producer.
RegistryNext ==
    \/ PeerNext(Peers)
    \/ Stop
    \/ IdleLoops

RegistrySpec == Init /\ [][RegistryNext]_vars

\* The View with NumPeers peers and callers of SendData and SendText.
SendSpecNext ==
    \/ PeerNext(Peers)
    \/ Stop
    \/ SendNext

SendSpec == Init /\ [][SendSpecNext]_vars

FairRegistrySpec ==
    /\ RegistrySpec
    /\ WF_vars(IdleLoops)
    /\ \A p \in Peers : WF_vars(AttachWorker(p))
    /\ WF_vars(StopWait)

\* The signaling adapter, the transport and the attach workers of the peers
\* of P while Stop() is not called.
AttachNext(P) ==
    \/ \E p \in P : HandlerSpawn(p)
    \/ \E p \in P, s \in ICEStates : OnICEConnectionStateChange(p, s)
    \/ \E p \in P : WorkerAdd(p)
    \/ \E p \in P : WorkerOnce(p)

\* The encode loop while Stop() is not called and the producer pushes at
\* most n images.
LiveInputFrames(Imgs, n) ==
    \/ EncodeTop
    \/ \E frame \in Imgs, factoryOk \in BOOLEAN, result \in EncodeResults :
          consumed < n /\ EncodeRecvFrame(frame, factoryOk, result)
    \/ EncodeSend

\* The View with NumPeers peers and a producer pushing SnapImages images of
\* one size, while Stop() is not called.
SnapshotNext ==
    \/ AttachNext(Peers)
    \/ LiveInputFrames({<<1, 2>>}, SnapImages)
    \/ processOutputFrames

SnapshotSpec == Init /\ [][SnapshotNext]_vars

\* Messages on the data channels of the peers of P.
DataNext(P) ==
    \/ \E p \in P, msg \in DataMsgs : DataArrive(p, msg)
    \/ \E sendOk \in BOOLEAN : DataCheck(sendOk)
    \/ DataCall

\* Messages on the click channels of the peers of P.
ClickNext(P) ==
    \/ \E p \in P : ClickArrive(p)
    \/ \E wellFormed \in BOOLEAN : ClickCheck(wellFormed)
    \/ ClickCall

\* The View with NumPeers peers sending on their data channels and a caller
\* of SetOnDataHandler, while Stop() is not called and no image is pushed.
DataSpecNext ==
    \/ AttachNext(Peers)
    \/ DataNext(Peers)
    \/ \E handler \in Handlers : SetOnDataHandler(handler)

DataSpec == Init /\ [][DataSpecNext]_vars

\* The same with the click channels and a caller of SetOnClickHandler.
HandlerSpecNext ==
    \/ AttachNext(Peers)
    \/ EncodeTop
    \/ DataNext(Peers)
    \/ ClickNext(Peers)
    \/ \E handler \in Handlers : SetOnDataHandler(handler)
    \/ \E handler \in Handlers : SetOnClickHandler(handler)

HandlerSpec == Init /\ [][HandlerSpecNext]_vars

\* The encode loop while the producer pushes at most n images.
BoundedInputFrames(Imgs, n) ==
    \/ EncodeTop
    \/ EncodeRecvShutdown
    \/ \E frame \in Imgs, factoryOk \in BOOLEAN, result \in EncodeResults :
          consumed < n /\ EncodeRecvFrame(frame, factoryOk, result)
    \/ EncodeSend

\* The View with PipePeers peers and a producer pushing SnapImages images of
\* one size; the goroutines of the View are scheduled fairly.
FairInitNext ==
    \/ PeerNext(PipelinePeers)
    \/ Stop
    \/ BoundedInputFrames({NilImage, <<1, 2>>}, SnapImages)
    \/ processOutputFrames

FairInitSpec ==
    /\ Init /\ [][FairInitNext]_vars
    /\ WF_vars(BoundedInputFrames({NilImage, <<1, 2>>}, SnapImages))
    /\ WF_vars(processOutputFrames)
    /\ \A p \in PipelinePeers : WF_vars(AttachWorker(p))
    /\ WF_vars(StopWait)

\* The View with PipePeers peers and a producer whose sends on InputFrames
\* are steps of their own. The goroutines of the View are scheduled fairly;
\* the producer and the other callers are free.
PushNext ==
    \/ PeerNext(PipelinePeers)
    \/ Stop
    \/ Push
    \/ PushedInputFrames({NilImage, <<1, 2>>})
    \/ processOutputFrames

FairPushSpec ==
    /\ Init /\ [][PushNext]_vars
    /\ WF_vars(PushedInputFrames({NilImage, <<1, 2>>}))
    /\ WF_vars(processOutputFrames)
    /\ \A p \in PipelinePeers : WF_vars(AttachWorker(p))
    /\ WF_vars(StopWait)

\* ------------------------------------------------------------------ claims
StrictlyIncreasing(seq) ==
    \A i, j \in 1..Len(seq) : i < j => seq[i] < seq[j]

Elems(seq) == {seq[i] : i \in 1..Len(seq)}

\* Both loops wait for work and nothing is in flight between them.
PipelineIdle == encPc \in {"top", "recv"} /\ outPc = "range"

\* C1: once Stop() has been called on a View whose pipeline has started, it
\* eventually returns, in every interleaving with the two loops, also when
\* the encode loop holds a sample it has not yet handed over (the process
\* aborting on a failed write, which is C10's subject, is left aside).
C1_StopReturns ==
    (stopPc = "wait" /\ encPc # "off") ~> (stopPc = "returned" \/ crashed)

\* C2: if the lifecycle is cancelled while the encode loop waits for an
\* image and the fan-out loop waits for a sample, then the encode loop
\* exits, the fan-out queue is closed, the fan-out loop exits and Stop()
\* returns.
C2_StopWhileIdle ==
    (cancelled /\ encPc = "recv" /\ outPc = "range" /\ ~outClosed)
        ~> (encPc = "done" /\ outClosed /\ outPc = "done" /\ stopPc = "returned")

C2_Witness ==
    /\ stopPc = "wait" /\ cancelled
    /\ encPc = "recv" /\ outPc = "range" /\ ~outClosed
    /\ held = 0

\* C3: for a connection registered from the start of the loops on and never
\* removed, in a View that is not stopped, once every pushed image has been
\* dealt with the connection has seen as many WriteSample calls as there are
\* images for which Encode returned a sample; an image without a sample
\* (no output, or a per-frame error) is never written, and does not end the
\* encode loop: the loop ends only on cancellation or a failed codec
\* initialization.
C3_WriteCount ==
    /\ \A p \in startClients :
          (p \in peerToRemoteClient /\ ice[p] # "terminated" /\ ~cancelled /\ PipelineIdle)
             => Len(writes[p]) = Len(samples)
    /\ \A p \in Peers : Elems(writes[p]) \subseteq Elems(samples)
    /\ encPc = "done" => (cancelled \/ (encoder = "nil" /\ Len(factoryCalls) = 1))

\* Three images were pushed, one of them gave no sample, and the connection
\* saw one write for each of the two others.
C3_Witness ==
    /\ ~cancelled /\ PipelineIdle
    /\ 1 \in startClients /\ 1 \in peerToRemoteClient /\ ice[1] # "terminated"
    /\ Len(encCalls) = 3 /\ Len(samples) = 2 /\ Len(writes[1]) = 2

\* C4: images are passed to Encode in the order they were pushed, samples
\* are produced in that order, and every connection sees the samples in the
\* order produced, none twice and none out of order.
C4_Order ==
    /\ StrictlyIncreasing(encCalls)
    /\ StrictlyIncreasing(samples)
    /\ Elems(samples) \subseteq Elems(encCalls)
    /\ \A p \in Peers :
          /\ StrictlyIncreasing(writes[p])
          /\ Elems(writes[p]) \subseteq Elems(samples)

\* Images 1 and 3 gave a sample, image 2 none: two writes, 1 then 3.
C4_Witness ==
    /\ encCalls = <<1, 2, 3>>
    /\ samples = <<1, 3>>
    /\ writes[1] = <<1, 3>>

\* C5: EncoderFactory.New is called at most once, with the width and height
\* of the first non-nil image received, and no image is passed to Encode
\* unless that call has succeeded.
C5_EncoderInit ==
    /\ Len(factoryCalls) <= 1
    /\ Len(factoryCalls) = 1 => (firstImage # NilImage /\ factoryCalls[1] = firstImage)
    /\ Len(encCalls) > 0 => (encoder = "enc" /\ Len(factoryCalls) = 1)
    /\ firstImage # NilImage => Len(factoryCalls) = 1

\* Three images were encoded after one call of the factory.
C5_Witness ==
    /\ Len(factoryCalls) = 1
    /\ factoryCalls[1] = <<2, 1>>
    /\ Len(encCalls) = 3

\* C6: readyCh is closed at most once and nothing faults; Ready is not
\* observable before some peer has reached connected; it is observable once
\* an attach has completed; once observable it stays observable.
C6_ReadyOneShot ==
    /\ [](/\ readyCloses <= 1
          /\ ~crashed
          /\ Ready => \E p \in Peers : iceConnected[p]
          /\ \A p \in Peers : hpc[p] = "attached" => Ready)
    /\ [][Ready => Ready']_vars

\* Both peers have attached and readyCh was closed once.
C6_Witness ==
    /\ \A p \in {1, 2} : hpc[p] = "attached"
    /\ readyCloses = 1

\* C7: after Stop() has returned on a View no peer has connected to, the
\* Ready signal eventually becomes observable.
C7_ReadyOnStop ==
    (stopPc = "returned" /\ \A p \in Peers : ~iceConnected[p]) ~> Ready

\* C8: a peer whose transport has reported disconnected, failed or closed
\* has no entry in the registry.
C8_NoEntryAfterTermination ==
    \A p \in Peers : ice[p] = "terminated" => p \notin peerToRemoteClient

\* C9: a broadcast attempts one send on the control sink of every connection
\* of the snapshot taken at the call and on no other, a failed send neither
\* faults nor keeps the other sends from being attempted, and with no
\* connection registered the call returns without a send.
C9_Broadcast ==
    /\ ~crashed
    /\ \A p \in Peers : sendCount[p] = (IF p \in sendSnap \ sendLeft THEN 1 ELSE 0)
    /\ sendFailed \subseteq sendSnap \ sendLeft
    /\ sendPc = "done" => sendLeft = {}
    /\ sendPc = "loop" => sendLeft # {}
    /\ sendPc = "idle" => sendSnap = {}

\* A broadcast to two connections has returned after both sends failed.
C9_Witness ==
    /\ sendPc = "done"
    /\ sendSnap = {1, 2}
    /\ sendFailed = {1, 2}
    /\ \A p \in {1, 2} : sendCount[p] = 1

\* A broadcast to no connection has returned.
C9_WitnessEmpty ==
    /\ sendPc = "done"
    /\ sendSnap = {}

\* C10: a failed WriteSample does not take the engine down.
C10_WriteFailureContained ==
    writeFailed => ~crashed

\* The codec initialization was attempted and failed.
InitFailed == encoder = "nil" /\ Len(factoryCalls) = 1

\* C16: when EncoderFactory.New fails on the first image, it is not called
\* again, the encode loop has exited without a call of Encode, the fan-out
\* queue is closed, no WriteSample is ever called, the fan-out loop exits,
\* and a Stop() that is waiting returns.
C16_FatalInit ==
    /\ [](InitFailed =>
            /\ encPc = "done" /\ outClosed
            /\ encCalls = <<>> /\ samples = <<>>
            /\ \A p \in Peers : writes[p] = <<>>
            /\ ~crashed)
    /\ [][InitFailed => factoryCalls' = factoryCalls]_vars
    /\ InitFailed ~> (outPc = "done" /\ stopPc # "wait")

\* The factory failed, both loops have exited and Stop() has returned.
C16_Witness ==
    /\ InitFailed
    /\ encPc = "done" /\ outPc = "done"
    /\ stopPc = "returned"

\* Goroutines counted by backgroundProcessing: the attach workers that have
\* not finished and the loops that run.
LiveWorkers == {p \in Peers : hpc[p] \in {"wait", "once"}}
LiveLoops ==
    (IF encPc \in {"top", "recv", "send"} THEN 1 ELSE 0)
        + (IF outPc \in {"range", "check", "write"} THEN 1 ELSE 0)

\* C17: the two loops are started together, by the first attach worker that
\* has passed its connected peer's addRemoteClient, and by no later one:
\* until then neither loop exists (so no pushed image can be received), and
\* backgroundProcessing counts each loop once however many peers attach.
C17_LoopsStartOnce ==
    /\ (encPc = "off") <=> (outPc = "off")
    /\ (encPc # "off") <=> (\E p \in Peers : hpc[p] = "attached")
    /\ \A p \in Peers : hpc[p] = "attached" => iceConnected[p]
    /\ encPc = "off" => (consumed = 0 /\ encCalls = <<>> /\ readyCloses = 0)
    /\ encPc # "off" => readyCloses = 1
    /\ ~crashed => wg = Cardinality(LiveWorkers) + LiveLoops

\* Two peers have attached while the loops started by the first still run.
C17_Witness ==
    /\ \A p \in {1, 2} : hpc[p] = "attached"
    /\ encPc = "recv" /\ outPc = "range"
    /\ wg = 2

\* C20: once Stop() has returned no image is received or passed to Encode,
\* the factory is not called and WriteSample is not called; loops started
\* by an attach worker after that exit at their first look at shutdownCtx
\* or at the closed queue.
C20_QuietAfterStop ==
    /\ [](stopPc = "returned" =>
            /\ encPc \in {"off", "top", "done"}
            /\ outPc \in {"off", "range", "done"})
    /\ [][stopPc = "returned" =>
            /\ writes' = writes
            /\ histVars' = histVars]_vars

\* Stop() had returned before the first attach worker started the loops.
C20_Witness ==
    /\ stopPc = "returned"
    /\ encPc = "top" /\ outPc = "range"
    /\ 1 \in peerToRemoteClient

\* C11: a send on InputFrames begun after Stop() has returned does not
\* block forever: the image is taken or the send is rejected.
C11_PushAfterStop ==
    (pushPc = "sendAfterStop") ~> (pushPc = "idle")

\* C14: removeRemoteClient with an identity that has no entry leaves the
\* registry as it is: a connected peer that was added stays registered, and
\* one registered since the loops started has seen every sample once the
\* pipeline is idle. The registry changes only when an attach worker adds
\* its peer or a terminal report removes a peer that has an entry, so a
\* terminal report for a peer without one changes nothing.
C14_RemoveAbsent ==
    /\ [](/\ \A p \in Peers \ peerToRemoteClient :
                removeRemoteClient(peerToRemoteClient, p) = peerToRemoteClient
          /\ \A p \in Peers :
                (hpc[p] \in {"once", "attached"} /\ ice[p] = "connected")
                   => p \in peerToRemoteClient
          /\ \A p \in startClients :
                (ice[p] = "connected" /\ PipelineIdle)
                   => Len(writes[p]) = Len(samples))
    /\ [][peerToRemoteClient' # peerToRemoteClient =>
             \E p \in Peers :
                \/ /\ hpc[p] = "wait" /\ hpc'[p] = "once"
                   /\ peerToRemoteClient' = peerToRemoteClient \cup {p}
                \/ /\ p \in peerToRemoteClient /\ ice'[p] = "terminated"
                   /\ peerToRemoteClient' = peerToRemoteClient \ {p}]_vars

\* Peer 2 terminated without ever being added, so its terminal report
\* removed an absent identity; peer 1 is registered and has seen the sample.
C14_Witness ==
    /\ hpc[2] = "wait" /\ ice[2] = "terminated"
    /\ peerToRemoteClient = {1} /\ ice[1] = "connected"
    /\ PipelineIdle
    /\ samples = <<1>> /\ writes[1] = <<1>>

\* C15: an iteration of the fan-out loop takes its snapshot of the registry
\* at its start; until it ends, a step either leaves the snapshot and the
\* writes alone (an add or remove does) or writes the sample to one pending
\* connection of the snapshot, which is then no longer pending; a sample is
\* written nowhere else. While the process runs a pending connection has
\* not yet seen the sample, and adding an identity that has an entry leaves
\* one entry for it.
C15_SnapshotIteration ==
    /\ [](/\ (outPc = "write" /\ ~crashed) =>
                (snap # {} /\ \A p \in snap : outFrame \notin Elems(writes[p]))
          /\ outPc \in {"range", "check"} => snap = {}
          /\ \A p \in Peers : StrictlyIncreasing(writes[p])
          /\ \A p \in peerToRemoteClient :
                addRemoteClient(peerToRemoteClient, p) = peerToRemoteClient)
    /\ [][(outPc = "check" /\ outPc' # "check" /\ ~cancelled)
             => snap' = getRemoteClients(peerToRemoteClient)]_vars
    /\ [][outPc = "write" =>
             \/ snap' = snap /\ writes' = writes
             \/ crashed'
             \/ \E p \in snap :
                   /\ snap' = snap \ {p}
                   /\ writes' = [writes EXCEPT ![p] = Append(@, outFrame)]]_vars
    /\ [][writes' # writes => outPc = "write"]_vars

\* In the middle of an iteration whose snapshot held peer 1 only: peer 1 has
\* been removed and is still pending, peer 2 has been added and is not.
C15_Witness ==
    /\ outPc = "write" /\ snap = {1}
    /\ peerToRemoteClient = {2}
    /\ writes[2] = <<>>

\* C12: a message, text or binary, whose delivery finds a data handler
\* installed never enters the built-in command path (UnmarshalCommand is not
\* called, nothing is sent on any data channel), goes to the handler call,
\* and the handler has been called exactly once when the delivery completes.
C12_HandlerBypass ==
    /\ dSeen = "fn" =>
          /\ dCmd = FALSE
          /\ \A p \in Peers : dReplies[p] = <<>>
          /\ dpc \in {"call", "done"}
          /\ dCalls = (IF dpc = "done" THEN 1 ELSE 0)
    /\ dCalls <= 1

\* A command with a text response went to the installed handler, once, and
\* was not processed.
C12_Witness ==
    /\ dpc = "done" /\ dSeen = "fn" /\ onDataHandler = "fn"
    /\ dMsg = "textResp" /\ dCalls = 1
    /\ dCmd = FALSE /\ dReplies[dPeer] = <<>>

\* C13: with no data handler installed, a text message that is no command
\* envelope or names an unregistered command is answered by one SendText of
\* the error on the data channel it came from and by nothing on another
\* peer's; the callback returns without calling a handler and the process
\* runs on; no step of a delivery changes the registry.
C13_ErrorReply ==
    /\ []((dSeen = "nil" /\ dMsg \in {"malformed", "unknown"}) =>
            /\ dpc = "done" /\ ~crashed
            /\ dCalls = 0
            /\ Len(dReplies[dPeer]) = 1 /\ dReplies[dPeer][1][1] = "error"
            /\ \A q \in Peers \ {dPeer} : dReplies[q] = <<>>)
    /\ [][dataVars' # dataVars => peerToRemoteClient' = peerToRemoteClient]_vars

\* Peer 1 named an unregistered command while both peers were registered
\* and got the one error reply.
C13_Witness ==
    /\ dpc = "done" /\ dSeen = "nil"
    /\ dMsg = "unknown" /\ dPeer = 1
    /\ dReplies[1] = << <<"error", TRUE>> >> /\ dReplies[2] = <<>>
    /\ peerToRemoteClient = {1, 2}

\* C18: a delivery that found no data handler installed never calls the
\* absent handler.
C18_NoCallOnCommandPath ==
    dSeen = "nil" => nilCall = "none"

\* C19: no interleaving of SetOnClickHandler / SetOnDataHandler with a
\* delivery makes the click callback, or a data callback that found a
\* handler installed, call a nil handler.
C19_NoNilHandlerCall ==
    /\ nilCall # "click"
    /\ nilCall = "data" => dSeen # "fn"

====
